---- MODULE Spec2Model ----
(***************************************************************************)
(* Register bank, interrupt arbitration and unlock/reset state machine of  *)
(* the PIC32MZ machine model (hw/mips/mips_pic32mz.c).                     *)
(*                                                                         *)
(* A 32-bit word is the set of its set-bit positions (a subset of 0..31):  *)
(* & is \cap, | is \cup, ^ is the symmetric difference, and a shift moves  *)
(* the positions and drops those that leave 0..31.                         *)
(*                                                                         *)
(* An offset into the I/O window is <<name, index, lo>>: the register      *)
(* block (16 bytes, named after the register at its start) and the low     *)
(* four address bits.  offset & ~3, offset & 3 and offset & 0xc act on lo. *)
(* s->iomem is zero-filled at construction; it is kept as the function     *)
(* from the word offsets whose cell is non-zero to their values.           *)
(***************************************************************************)
EXTENDS Integers, Sequences, FiniteSets, TLC

VARIABLES
    iomem,          \* s->iomem: non-zero cells, word offset -> word
    syskey_unlock,  \* s->syskey_unlock: 0 locked, 1 stage1, 2 stage2
    Cause_RIPL,     \* the RIPL field of env->CP0_Cause (6 bits)
    board_type,     \* s->board_type, fixed at construction
    halted,         \* "run", or the exit() that ended the simulation
    last,           \* the access or call that produced this state
    key_hist,       \* data of the last two io_write32 calls on SYSKEY
    acc_hist,       \* classes of the last three accesses or calls
    logging,        \* qemu_loglevel_mask(CPU_LOG_INSTR), with qemu_logfile open
    logged,         \* the lines the last access or call sent to qemu_logfile
    twin            \* a second run, given the same calls under the other
                    \* setting of logging (SpecLog)

vars == <<iomem, syskey_unlock, Cause_RIPL, board_type, halted, last,
          key_hist, acc_hist, logging, logged, twin>>

(***************************************************************************)
(* Words.                                                                  *)
(***************************************************************************)
WordBits == 0..31

Bits16(n) == {i \in 0..15 : (n \div (2^i)) % 2 = 1}

Hex32(hi, lo) == Bits16(lo) \cup {i + 16 : i \in Bits16(hi)}

Shl(w, k) == {i + k : i \in {j \in w : j + k <= 31}}

Shr(w, k) == {i - k : i \in {j \in w : j >= k}}

RECURSIVE ToNat(_)
ToNat(w) == IF w = {} THEN 0
            ELSE LET i == CHOOSE x \in w : TRUE IN 2^i + ToNat(w \ {i})

Uint8(w) == w \cap (0..7)

Uint16(w) == w \cap (0..15)

(***************************************************************************)
(* Offsets and registers.                                                  *)
(***************************************************************************)
Reg(name, n) == <<name, n, 0>>

Plus(offset, k) == <<offset[1], offset[2], offset[3] + k>>

WordAligned(offset) == <<offset[1], offset[2], offset[3] - (offset[3] % 4)>>

Canonical(offset) == <<offset[1], offset[2], 0>>

INTCON == Reg("INTCON", 0)
INTSTAT == Reg("INTSTAT", 0)
IPTMR == Reg("IPTMR", 0)
IFS(n) == Reg("IFS", n)
IEC(n) == Reg("IEC", n)
IPC(n) == Reg("IPC", n)
DEVID == Reg("DEVID", 0)
SYSKEY == Reg("SYSKEY", 0)
RCON == Reg("RCON", 0)
RSWRST == Reg("RSWRST", 0)
OSCCON == Reg("OSCCON", 0)
OSCTUN == Reg("OSCTUN", 0)
SPLLCON == Reg("SPLLCON", 0)
REFOCON(n) == Reg("REFOCON", n)
PBDIV(n) == Reg("PBDIV", n)
URXREG(n) == Reg("URXREG", n)
UMODE(n) == Reg("UMODE", n)
USTA(n) == Reg("USTA", n)
UTXREG(n) == Reg("UTXREG", n)
SPICON(n) == Reg("SPICON", n)
SPISTAT(n) == Reg("SPISTAT", n)
SPIBUF(n) == Reg("SPIBUF", n)
RTCCON == Reg("RTCCON", 0)
PORT(p) == Reg("PORT", p)
LAT(p) == Reg("LAT", p)
ETHCON1 == Reg("ETHCON1", 0)
EMAC1MCMD == Reg("EMAC1MCMD", 0)
EMAC1MWTD == Reg("EMAC1MWTD", 0)
NOREG == Reg("NOREG", 0)

\* The units of this model: UART 1..6, SPI 1..4, and of the ports A..K the
\* first and the last (the port index handed to pic32_gpio_write).
Uarts == 1..6
Spis == 1..4
Ports == {0, 9}

\* Bits of the status registers (pic32mz.h).
PIC32_USTA_URXDA == {0}
PIC32_USTA_FERR == {2}
PIC32_USTA_PERR == {3}
PIC32_USTA_RIDLE == {4}
PIC32_USTA_TRMT == {8}
PIC32_USTA_UTXBF == {9}
PIC32_SPISTAT_SPITBE == {3}
PIC32_SPISTAT_SPIROV == {6}
PIC32_RTCC_HALFSEC == {1}
PIC32_RTCC_SYNC == {2}
PIC32_RTCC_CLKON == {6}
PIC32_RTCC_ON == {15}

BOARD_WIFIRE == "BOARD_WIFIRE"
BOARD_MEBII == "BOARD_MEBII"
BOARD_EXPLORER16 == "BOARD_EXPLORER16"
BOARD_HMZ144 == "BOARD_HMZ144"

VALUE(m, offset) == IF offset \in DOMAIN m THEN m[offset] ELSE {}

Store(m, offset, w) ==
    IF w = {}
    THEN [o \in (DOMAIN m) \ {offset} |-> m[o]]
    ELSE [o \in (DOMAIN m) \cup {offset} |-> IF o = offset THEN w ELSE m[o]]

(***************************************************************************)
(* update_irq_status                                                       *)
(***************************************************************************)
PIC32_IRQ_LAST == 190

\* The pending test of the loop without the enable bank.
IrqPending_mut(m, irq) ==
    (irq % 32) \in VALUE(m, IFS(irq \div 32))

IrqPending(m, irq) ==
    (irq % 32) \in (VALUE(m, IFS(irq \div 32)) \cap VALUE(m, IEC(irq \div 32)))

\* The level taken from bits 4:0 of the field, sub-priority included.
IrqLevel_mut(m, irq) ==
    ToNat(Shr(VALUE(m, IPC(irq \div 4)), (irq % 4) * 8) \cap (0..4))

IrqLevel(m, irq) ==
    ToNat(Shr(VALUE(m, IPC(irq \div 4)), 2 + (irq % 4) * 8) \cap (0..2))

\* The loop body with >= for >: a later source of the same level takes over.
irq_step_mut(m, irq, found) ==
    IF IrqLevel(m, irq) >= found[2] THEN <<irq, IrqLevel(m, irq)>> ELSE found

\* The body of the loop for a source whose pending test is true: found is
\* <<vector, cause_ripl>>.
irq_step(m, irq, found) ==
    IF IrqLevel(m, irq) > found[2] THEN <<irq, IrqLevel(m, irq)>> ELSE found

\* The sources 0..PIC32_IRQ_LAST that pass the loop's pending test.  An
\* iteration whose test fails does nothing, so the loop is run over these.
PendingSources(m) ==
    {irq \in UNION {{32 * n + b : b \in VALUE(m, IFS(n))} : n \in 0..5} :
        irq <= PIC32_IRQ_LAST /\ IrqPending(m, irq)}

\* for (irq = 0; irq <= PIC32_IRQ_LAST; irq++): todo holds the sources still
\* to visit, taken in increasing order.
RECURSIVE irq_scan(_, _, _)
irq_scan(m, todo, found) ==
    IF todo = {} THEN found
    ELSE LET irq == CHOOSE i \in todo : \A j \in todo : i <= j
         IN  irq_scan(m, todo \ {irq}, irq_step(m, irq, found))

AnyPending(m) == \E n \in 0..5 : VALUE(m, IFS(n)) \cap VALUE(m, IEC(n)) # {}

\* The end of update_irq_status with the rewrite of Cause.RIPL and the call
\* of cpu_interrupt taken under the test of the log level.
latch_ripl_log_mut(m, cause_ripl, current_ripl) ==
    IF cause_ripl = current_ripl \/ ~logging
    THEN [iomem |-> m, ripl |-> current_ripl, hard |-> FALSE, upd |-> TRUE]
    ELSE [iomem |-> m, ripl |-> cause_ripl, hard |-> TRUE, upd |-> TRUE]

\* The end of update_irq_status rewriting Cause.RIPL without the call of
\* cpu_interrupt.
latch_ripl_quiet_mut(m, cause_ripl, current_ripl) ==
    [iomem |-> m, ripl |-> cause_ripl, hard |-> FALSE, upd |-> TRUE]

\* The end of update_irq_status calling cpu_interrupt whatever the level.
latch_ripl_mut(m, cause_ripl, current_ripl) ==
    [iomem |-> m, ripl |-> cause_ripl, hard |-> TRUE, upd |-> TRUE]

\* The end of update_irq_status: return when the level is the latched one,
\* else rewrite Cause.RIPL and call cpu_interrupt(CPU_INTERRUPT_HARD).
latch_ripl(m, cause_ripl, current_ripl) ==
    IF cause_ripl = current_ripl
    THEN [iomem |-> m, ripl |-> current_ripl, hard |-> FALSE, upd |-> TRUE]
    ELSE [iomem |-> m, ripl |-> cause_ripl, hard |-> TRUE, upd |-> TRUE]

\* The state after update_irq_status: the cells, Cause.RIPL, and whether
\* cpu_interrupt(CPU_INTERRUPT_HARD) was called.
update_irq_status(m, current_ripl) ==
    LET found == IF AnyPending(m)
                 THEN irq_scan(m, PendingSources(m), <<0, 0>>)
                 ELSE <<0, 0>>
        vector == found[1]
        cause_ripl == found[2]
        m1 == Store(m, INTSTAT, {})
        m2 == IF AnyPending(m)
              THEN Store(m1, INTSTAT, Bits16(vector) \cup Shl(Bits16(cause_ripl), 8))
              ELSE m1
    IN  latch_ripl(m2, cause_ripl, current_ripl)

\* write_op with the clear case computing a & b.
write_op_mut(a, b, op) ==
    LET sel == op[3] - (op[3] % 4)
    IN  CASE sel = 0 -> b
          [] sel = 4 -> a \cap b
          [] sel = 8 -> a \cup b
          [] sel = 12 -> (a \ b) \cup (b \ a)

(***************************************************************************)
(* write_op                                                                *)
(***************************************************************************)
write_op(a, b, op) ==
    LET sel == op[3] - (op[3] % 4)      \* op & 0xc
    IN  CASE sel = 0 -> b
          [] sel = 4 -> a \ b
          [] sel = 8 -> a \cup b
          [] sel = 12 -> (a \ b) \cup (b \ a)

(***************************************************************************)
(* The register macros of pic32mz.h, as io_write32 uses them:              *)
(* WRITEOP(name) labels name, name+4, name+8 and name+12 and stores        *)
(* write_op(VALUE(name), data, offset) into the cell of name.              *)
(***************************************************************************)
WRITEOP(m, name, data, offset) ==
    Store(m, name, write_op(VALUE(m, name), data, offset))

\* WRITEOPR(name, romask) labels the same four addresses; of the result of
\* write_op only the bits outside romask reach the cell.
WRITEOPR(m, name, romask, data, offset) ==
    Store(m, name, (VALUE(m, name) \cap romask)
                   \cup (write_op(VALUE(m, name), data, offset) \ romask))

(***************************************************************************)
(* io_reset: the cells it assigns, in its order, for the registers of this *)
(* model.                                                                  *)
(***************************************************************************)
ResetCells(board) ==
    << <<SYSKEY, {}>>, <<RCON, {}>>, <<RSWRST, {}>>, <<OSCTUN, {}>>,
       <<SPLLCON, IF board = BOARD_HMZ144 THEN Hex32(355, 513)      \* 0x01630201
                  ELSE Hex32(305, 513)>>,                           \* 0x01310201
       <<PBDIV(1), Hex32(0, 34817)>>,                               \* 0x00008801
       <<PBDIV(2), Hex32(0, 34817)>>, <<PBDIV(3), Hex32(0, 34817)>>,
       <<PBDIV(4), Hex32(0, 34817)>>, <<PBDIV(5), Hex32(0, 34817)>>,
       <<PBDIV(7), Hex32(0, 34816)>>,                               \* 0x00008800
       <<PBDIV(8), Hex32(0, 34817)>>,
       <<URXREG(1), {}>>, <<URXREG(2), {}>>, <<URXREG(3), {}>>,
       <<URXREG(4), {}>>, <<URXREG(5), {}>>, <<URXREG(6), {}>> >>
    \o << <<RTCCON, {}>>,
          <<PORT(0), Hex32(0, 65487)>>, <<LAT(0), Hex32(0, 65535)>>,  \* 0xFFCF
          <<PORT(9), Hex32(0, 65535)>>, <<LAT(9), Hex32(0, 65535)>>,  \* 0xFFFF
          <<ETHCON1, {}>>, <<EMAC1MCMD, {}>>, <<EMAC1MWTD, {}>> >>
    \o [i \in 1..18 |->
          LET n == ((i - 1) \div 3) + 1
          IN  CASE i % 3 = 1 -> <<UMODE(n), {}>>
                [] i % 3 = 2 -> <<USTA(n), PIC32_USTA_RIDLE \cup PIC32_USTA_TRMT>>
                [] OTHER -> <<UTXREG(n), {}>>]
    \o [i \in 1..8 |->
          LET n == ((i - 1) \div 2) + 1
          IN  IF i % 2 = 1 THEN <<SPICON(n), {}>>
              ELSE <<SPISTAT(n), PIC32_SPISTAT_SPITBE>>]

\* The assignments of cells made one after the other: the last one to a
\* cell stays.
StoreAll(m, cells) ==
    LET idx == 1..Len(cells)
        offs == {cells[i][1] : i \in idx}
        final(o) == cells[CHOOSE i \in idx :
                             /\ cells[i][1] = o
                             /\ \A j \in idx : j > i => cells[j][1] # o][2]
        word(o) == IF o \in offs THEN final(o) ELSE m[o]
    IN  [o \in {x \in (DOMAIN m) \cup offs : word(x) # {}} |-> word(o)]

\* io_reset leaving the unlock state at 2.
io_reset_mut(m, board) ==
    [iomem |-> StoreAll(m, ResetCells(board)), syskey_unlock |-> 2]

io_reset(m, board) ==
    [iomem |-> StoreAll(m, ResetCells(board)), syskey_unlock |-> 0]

(***************************************************************************)
(* io_write32                                                              *)
(***************************************************************************)
KEY1 == Hex32(43673, 26197)     \* 0xaa996655
KEY2 == Hex32(21862, 39338)     \* 0x556699aa

WriteopReturn ==
    {INTCON, IPTMR} \cup {REFOCON(n) : n \in 1..4}
                    \cup {PBDIV(n) : n \in {1, 2, 3, 4, 5, 7, 8}}

WriteopIrq ==
    {IFS(n) : n \in 0..5} \cup {IEC(n) : n \in 0..5} \cup {IPC(n) : n \in 0..47}

ReadonlyRegs == {INTSTAT, DEVID} \cup {URXREG(n) : n \in 1..6}

StorageBreak == {RCON, OSCCON, OSCTUN, SPLLCON}

\* WRITEOP, a call of a collaborator, return.
WriteopHook ==
    {UMODE(n) : n \in Uarts} \cup {SPICON(n) : n \in Spis}
    \cup {LAT(p) : p \in Ports} \cup {ETHCON1, EMAC1MCMD, EMAC1MWTD}

\* WRITEOPX(PORTx, LATx): the four addresses of PORTx lead to the store of
\* WRITEOP(LATx).
WriteopxPort == {PORT(p) : p \in Ports}

\* WRITEOPX with the store aimed at the PORTx cell itself.
writeopx_target_mut(reg) == reg

\* The second argument of WRITEOPX(PORTx, LATx): the register whose store the
\* addresses of PORTx lead to.
writeopx_target(reg) == LAT(reg[2])

\* WRITEOPR with its read-only mask.
WriteoprRegs ==
    {USTA(n) : n \in Uarts} \cup {SPISTAT(n) : n \in Spis} \cup {RTCCON}

romask(reg) ==
    CASE reg[1] = "USTA" ->
            PIC32_USTA_URXDA \cup PIC32_USTA_FERR \cup PIC32_USTA_PERR
            \cup PIC32_USTA_RIDLE \cup PIC32_USTA_TRMT \cup PIC32_USTA_UTXBF
      [] reg[1] = "SPISTAT" -> WordBits \ PIC32_SPISTAT_SPIROV
      [] reg = RTCCON ->
            PIC32_RTCC_HALFSEC \cup PIC32_RTCC_SYNC \cup PIC32_RTCC_CLKON

\* STORAGE, a call of a collaborator with the data.
StorageHook == {UTXREG(n) : n \in Uarts} \cup {SPIBUF(n) : n \in Spis}

\* The collaborator a write case calls.
HookOf(reg) ==
    CASE reg[1] = "UTXREG" -> "pic32_uart_put_char"
      [] reg[1] = "UMODE" -> "pic32_uart_update_mode"
      [] reg[1] = "USTA" -> "pic32_uart_update_status"
      [] reg[1] = "SPICON" -> "pic32_spi_control"
      [] reg[1] = "SPIBUF" -> "pic32_spi_writebuf"
      [] reg[1] \in {"LAT", "PORT"} -> "pic32_gpio_write"
      [] reg = ETHCON1 -> "pic32_eth_control"
      [] reg = EMAC1MCMD -> "pic32_mii_command"
      [] reg = EMAC1MWTD -> "pic32_mii_write"
      [] OTHER -> "none"

\* A call of a collaborator: its name, the word it is handed (data, or
\* VALUE(LATx) for pic32_gpio_write) and the register's cell as the call
\* finds it.  What the collaborator then does is outside this file.
NoHook == [name |-> "none", arg |-> {}, cell |-> {}]

Hook(m, reg, arg) == [name |-> HookOf(reg), arg |-> arg, cell |-> VALUE(m, reg)]

\* The RTCCON case leaving CLKON as the write left it.
rtcc_clkon_mut(v) == v

\* The RTCCON case after WRITEOPR: CLKON follows ON.
rtcc_clkon(v) ==
    IF v \cap PIC32_RTCC_ON # {}
    THEN write_op(v, PIC32_RTCC_CLKON, Plus(RTCCON, 8))
    ELSE write_op(v, PIC32_RTCC_CLKON, Plus(RTCCON, 4))

\* The guard of the software reset without the test of the unlock state.
reset_honoured_mut(unlock, rswrst) == 0 \in rswrst

\* The guard of the software reset (WRITEOP(RSWRST) has already stored).
reset_honoured(unlock, rswrst) == unlock = 2 /\ 0 \in rswrst

\* The SYSKEY case without its final else: a started sequence is kept.
syskey_step_mut(unlock, syskey) ==
    LET u1 == IF unlock = 0 /\ syskey = KEY1 THEN 1 ELSE unlock
    IN  IF u1 = 1 /\ syskey = KEY2 THEN 2 ELSE u1

\* The SYSKEY case: the two tests and the else, on the stored VALUE(SYSKEY).
syskey_step(unlock, syskey) ==
    LET u1 == IF unlock = 0 /\ syskey = KEY1 THEN 1 ELSE unlock
    IN  IF u1 = 1 /\ syskey = KEY2 THEN 2 ELSE 0

\* The readonly label leaving the unlock state at 1.
write_readonly_unlock_mut(same, offset, data) ==
    [same EXCEPT !.readonly = TRUE, !.syskey_unlock = 1]

\* The readonly label storing the data instead of discarding it.
write_readonly_mut(same, offset, data) ==
    [same EXCEPT !.iomem = Store(same.iomem, offset, data)]

\* The default label of io_write32 returning instead of exiting.
write_default_mut(same, offset, data) == same

\* The readonly label: a diagnostic, *namep = 0, return.
write_readonly(same, offset, data) == [same EXCEPT !.readonly = TRUE]

\* The default label of io_write32: a diagnostic, exit(1).
write_default(same, offset, data) == [same EXCEPT !.exit = "exit1"]

\* What one call changes and does: the cells, the unlock state, Cause.RIPL,
\* cpu_interrupt (hard), exit(1) (exit), the readonly label (readonly),
\* io_reset (reset), qemu_system_reset_request (sysreq), pic32_sdcard_reset
\* (sdreset), update_irq_status (upd).
io_write32(m, unlock, ripl, board, offset, data) ==
    LET reg == Canonical(offset)
        lo == offset[3]
        same == [iomem |-> m, syskey_unlock |-> unlock, ripl |-> ripl,
                 hard |-> FALSE, exit |-> "run", readonly |-> FALSE,
                 reset |-> FALSE, sysreq |-> FALSE, sdreset |-> FALSE,
                 upd |-> FALSE, hook |-> NoHook]
    IN  CASE reg \in WriteopReturn ->
                [same EXCEPT !.iomem = WRITEOP(m, reg, data, offset)]
          [] reg \in WriteopIrq ->
                LET u == update_irq_status(WRITEOP(m, reg, data, offset), ripl)
                IN  [same EXCEPT !.iomem = u.iomem, !.ripl = u.ripl,
                                 !.hard = u.hard, !.upd = u.upd]
          [] reg \in ReadonlyRegs /\ lo = 0 ->
                write_readonly(same, offset, data)
          [] reg = SYSKEY /\ lo = 0 ->
                [same EXCEPT !.syskey_unlock = syskey_step(unlock,
                                                           VALUE(m, SYSKEY)),
                             !.iomem = Store(m, offset, data)]
          [] reg \in StorageBreak /\ lo = 0 ->
                [same EXCEPT !.iomem = Store(m, offset, data)]
          [] reg = RSWRST ->
                LET m1 == WRITEOP(m, RSWRST, data, offset)
                    fire == reset_honoured(unlock, VALUE(m1, RSWRST))
                    r == io_reset(m1, board)
                IN  IF fire
                    THEN [same EXCEPT !.iomem = Store(r.iomem, offset, data),
                                      !.syskey_unlock = r.syskey_unlock,
                                      !.reset = TRUE, !.sysreq = TRUE,
                                      !.sdreset = TRUE]
                    ELSE [same EXCEPT !.iomem = Store(m1, offset, data)]
          [] reg \in WriteopHook ->
                LET m1 == WRITEOP(m, reg, data, offset)
                IN  [same EXCEPT !.iomem = m1,
                                 !.hook = Hook(m1, reg,
                                               IF reg[1] = "LAT"
                                               THEN VALUE(m1, reg) ELSE {})]
          [] reg \in WriteopxPort ->
                LET m1 == WRITEOP(m, writeopx_target(reg), data, offset)
                IN  [same EXCEPT !.iomem = m1,
                                 !.hook = Hook(m1, LAT(reg[2]),
                                               VALUE(m1, LAT(reg[2])))]
          [] reg \in WriteoprRegs ->
                LET m1 == WRITEOPR(m, reg, romask(reg), data, offset)
                IN  CASE reg = RTCCON ->
                            [same EXCEPT !.iomem =
                                Store(m1, reg, rtcc_clkon(VALUE(m1, reg)))]
                      [] reg[1] = "USTA" ->
                            [same EXCEPT !.iomem = m1,
                                         !.hook = Hook(m1, reg, {})]
                      [] OTHER -> [same EXCEPT !.iomem = m1]
          [] reg[1] = "UTXREG" /\ reg \in StorageHook /\ lo = 0 ->
                [same EXCEPT !.hook = Hook(m, reg, data),
                             !.iomem = Store(m, offset, data)]
          [] reg[1] = "SPIBUF" /\ reg \in StorageHook /\ lo = 0 ->
                [same EXCEPT !.hook = Hook(m, reg, data)]
          [] OTHER -> write_default(same, offset, data)

(***************************************************************************)
(* io_read32                                                               *)
(***************************************************************************)
stop_on_reset == TRUE

ReadStorage ==
    {INTCON, INTSTAT, DEVID, SYSKEY, RCON, OSCCON, OSCTUN, SPLLCON}
    \cup WriteopIrq
    \cup {REFOCON(n) : n \in 1..4}
    \cup {PBDIV(n) : n \in {1, 2, 3, 4, 5, 7, 8}}
    \cup {UMODE(n) : n \in Uarts} \cup {USTA(n) : n \in Uarts}
    \cup {SPICON(n) : n \in Spis} \cup {SPISTAT(n) : n \in Spis}
    \cup {PORT(p) : p \in Ports} \cup {LAT(p) : p \in Ports}
    \cup {RTCCON, ETHCON1, EMAC1MCMD, EMAC1MWTD}

ReadZeroed ==
    {Plus(r, k) : r \in {REFOCON(n) : n \in 1..4}
                       \cup {PBDIV(n) : n \in {1, 2, 3, 4, 5, 7, 8}}
                       \cup {UMODE(n) : n \in Uarts}
                       \cup {USTA(n) : n \in Uarts}
                       \cup {SPICON(n) : n \in Spis}
                       \cup {SPISTAT(n) : n \in Spis},
                  k \in {4, 8, 12}}
    \cup {UTXREG(n) : n \in Uarts}

\* STORAGE, then the word a collaborator hands back.
ReadFromHook == {URXREG(n) : n \in Uarts} \cup {SPIBUF(n) : n \in Spis}

\* The default label of io_read32: a diagnostic, exit(1).
read_default(m, offset) == [iomem |-> m, data |-> {}, exit |-> "exit1"]

\* ch is the word pic32_uart_get_char or pic32_spi_readbuf hands back for a
\* read of UxRXREG or SPIxBUF.  A read of UxSTA calls pic32_uart_poll_status
\* before the value is taken; what it does is outside this file.
io_read32(m, offset, ch) ==
    CASE offset \in ReadStorage ->
            [iomem |-> m, data |-> VALUE(m, offset), exit |-> "run"]
      [] offset = RSWRST ->
            IF 0 \in VALUE(m, RSWRST) /\ stop_on_reset
            THEN [iomem |-> m, data |-> {}, exit |-> "exit0"]
            ELSE [iomem |-> m, data |-> VALUE(m, offset), exit |-> "run"]
      [] offset \in ReadZeroed ->
            [iomem |-> Store(m, offset, {}), data |-> {}, exit |-> "run"]
      [] offset \in ReadFromHook ->
            [iomem |-> Store(m, offset, ch), data |-> ch, exit |-> "run"]
      [] OTHER -> read_default(m, offset)

(***************************************************************************)
(* History kept for the properties: the last two SYSKEY writes and the     *)
(* classes of the last three accesses or calls.                            *)
(***************************************************************************)
LastN(q, n) == IF Len(q) > n THEN SubSeq(q, Len(q) - n + 1, Len(q)) ELSE q

AccClass(offset, data) ==
    CASE offset = SYSKEY /\ data = KEY1 -> "KEY1"
      [] offset = SYSKEY /\ data = KEY2 -> "KEY2"
      [] offset = RSWRST /\ 0 \in data -> "RSWRST1"
      [] OTHER -> "other"

NoCall == [op |-> "init", addr |-> NOREG, bytes |-> 0, data |-> {},
           value |-> {}, irq |-> 0, hard |-> FALSE, readonly |-> FALSE,
           reset |-> FALSE, sysreq |-> FALSE, sdreset |-> FALSE,
           upd |-> FALSE, rep |-> FALSE, hook |-> NoHook]

(***************************************************************************)
(* The lines written to qemu_logfile under qemu_loglevel_mask(CPU_LOG_INSTR)*)
(* by one access or call l that left the simulation in h: by               *)
(* update_irq_status before the rewrite of Cause.RIPL, by the default and  *)
(* readonly labels, and by pic32_io_read and pic32_io_write at their end   *)
(* (pic32_io_write only when the readonly label has not set name to 0).    *)
(***************************************************************************)
trace_lines(lg, l, h) ==
    IF ~lg THEN << >>
    ELSE (IF l.hard THEN <<"Priority level Cause.RIPL">> ELSE << >>)
         \o (IF l.op \in {"read", "write"} /\ h = "exit1"
             THEN <<"peripheral register not supported">> ELSE << >>)
         \o (IF l.readonly THEN <<"readonly register">> ELSE << >>)
         \o (IF l.op = "read" /\ h = "run" THEN <<"I/O Read">> ELSE << >>)
         \o (IF l.op = "write" /\ h = "run" /\ ~l.readonly
             THEN <<"I/O Write">> ELSE << >>)

(***************************************************************************)
(* pic32_io_write                                                          *)
(***************************************************************************)
AlignData(addr, data, bytes) ==
    CASE bytes = 1 -> Shl(Uint8(data), (addr[3] % 4) * 8)
      [] bytes = 2 -> Shl(Uint16(data), (((addr[3] \div 2) % 2) * 2) * 8)
      [] OTHER -> data

pic32_io_write(addr, data, bytes) ==
    /\ halted = "run"
    /\ LET offset == WordAligned(addr)
           d == AlignData(addr, data, bytes)
           w == io_write32(iomem, syskey_unlock, Cause_RIPL, board_type,
                           offset, d)
       IN  /\ iomem' = w.iomem
           /\ syskey_unlock' = w.syskey_unlock
           /\ Cause_RIPL' = w.ripl
           /\ halted' = w.exit
           /\ last' = [NoCall EXCEPT !.op = "write", !.addr = addr,
                          !.bytes = bytes, !.data = data, !.hard = w.hard,
                          !.readonly = w.readonly, !.reset = w.reset,
                          !.sysreq = w.sysreq, !.sdreset = w.sdreset,
                          !.upd = w.upd, !.hook = w.hook]
           /\ key_hist' = IF offset = SYSKEY /\ w.exit = "run"
                          THEN LastN(Append(key_hist,
                                   [pre |-> syskey_unlock, data |-> d]), 2)
                          ELSE key_hist
           /\ acc_hist' = LastN(Append(acc_hist, AccClass(offset, d)), 3)
    /\ logged' = trace_lines(logging, last', halted')
    /\ UNCHANGED <<board_type, logging, twin>>

(***************************************************************************)
(* pic32_io_read                                                           *)
(***************************************************************************)
\* The switch (bytes) of pic32_io_read without the shifts.
NarrowData_mut(addr, data, bytes) ==
    CASE bytes = 1 -> Uint8(data)
      [] bytes = 2 -> Uint16(data)
      [] OTHER -> data

NarrowData(addr, data, bytes) ==
    CASE bytes = 1 -> Uint8(Shr(data, (addr[3] % 4) * 8))
      [] bytes = 2 -> Uint16(IF (addr[3] \div 2) % 2 = 1 THEN Shr(data, 16)
                             ELSE data)
      [] OTHER -> data

pic32_io_read(addr, bytes, ch) ==
    /\ halted = "run"
    /\ LET r == io_read32(iomem, WordAligned(addr), ch)
       IN  /\ iomem' = r.iomem
           /\ halted' = r.exit
           /\ last' = [NoCall EXCEPT !.op = "read", !.addr = addr,
                          !.bytes = bytes,
                          !.value = IF r.exit = "run"
                                    THEN NarrowData(addr, r.data, bytes)
                                    ELSE {}]
    /\ acc_hist' = LastN(Append(acc_hist, "other"), 3)
    /\ logged' = trace_lines(logging, last', halted')
    /\ UNCHANGED <<syskey_unlock, Cause_RIPL, board_type, key_hist, logging,
                   twin>>

(***************************************************************************)
(* irq_raise, irq_clear                                                    *)
(***************************************************************************)
IrqBit(irq) == {irq % 32}       \* 1 << (irq & 31)

\* irq_raise without the test of the flag, inverting it.
raise_flag_toggle_mut(m, ripl, irq) ==
    update_irq_status(
        Store(m, IFS(irq \div 32),
              {i \in WordBits : (i \in VALUE(m, IFS(irq \div 32)))
                                   # (i \in IrqBit(irq))}), ripl)

\* irq_raise setting the flag without the call of update_irq_status.
raise_flag_mut(m, ripl, irq) ==
    [iomem |-> Store(m, IFS(irq \div 32),
                     VALUE(m, IFS(irq \div 32)) \cup IrqBit(irq)),
     ripl |-> ripl, hard |-> FALSE, upd |-> FALSE]

raise_flag(m, ripl, irq) ==
    IF VALUE(m, IFS(irq \div 32)) \cap IrqBit(irq) # {}
    THEN [iomem |-> m, ripl |-> ripl, hard |-> FALSE, upd |-> FALSE]
    ELSE update_irq_status(
             Store(m, IFS(irq \div 32),
                   VALUE(m, IFS(irq \div 32)) \cup IrqBit(irq)), ripl)

\* irq_clear without the test of the flag, inverting it.
clear_flag_toggle_mut(m, ripl, irq) ==
    update_irq_status(
        Store(m, IFS(irq \div 32),
              {i \in WordBits : (i \in VALUE(m, IFS(irq \div 32)))
                                   # (i \in IrqBit(irq))}), ripl)

\* irq_clear clearing the flag without the call of update_irq_status.
clear_flag_mut(m, ripl, irq) ==
    [iomem |-> Store(m, IFS(irq \div 32),
                     VALUE(m, IFS(irq \div 32)) \ IrqBit(irq)),
     ripl |-> ripl, hard |-> FALSE, upd |-> FALSE]

clear_flag(m, ripl, irq) ==
    IF VALUE(m, IFS(irq \div 32)) \cap IrqBit(irq) = {}
    THEN [iomem |-> m, ripl |-> ripl, hard |-> FALSE, upd |-> FALSE]
    ELSE update_irq_status(
             Store(m, IFS(irq \div 32),
                   VALUE(m, IFS(irq \div 32)) \ IrqBit(irq)), ripl)

irq_raise(irq) ==
    /\ halted = "run"
    /\ LET u == raise_flag(iomem, Cause_RIPL, irq)
       IN  /\ iomem' = u.iomem
           /\ Cause_RIPL' = u.ripl
           /\ last' = [NoCall EXCEPT !.op = "raise", !.irq = irq,
                                     !.hard = u.hard, !.upd = u.upd,
                                     !.rep = (last.op = "raise"
                                              /\ last.irq = irq)]
    /\ acc_hist' = LastN(Append(acc_hist, "other"), 3)
    /\ logged' = trace_lines(logging, last', halted')
    /\ UNCHANGED <<syskey_unlock, board_type, halted, key_hist, logging, twin>>

irq_clear(irq) ==
    /\ halted = "run"
    /\ LET u == clear_flag(iomem, Cause_RIPL, irq)
       IN  /\ iomem' = u.iomem
           /\ Cause_RIPL' = u.ripl
           /\ last' = [NoCall EXCEPT !.op = "clear", !.irq = irq,
                                     !.hard = u.hard, !.upd = u.upd,
                                     !.rep = (last.op = "clear"
                                              /\ last.irq = irq)]
    /\ acc_hist' = LastN(Append(acc_hist, "other"), 3)
    /\ logged' = trace_lines(logging, last', halted')
    /\ UNCHANGED <<syskey_unlock, board_type, halted, key_hist, logging, twin>>

(***************************************************************************)
(* pic32_init: iomem zero-filled, the board's DEVID and OSCCON, io_reset.  *)
(***************************************************************************)
BoardCells(board) ==
    CASE board = BOARD_WIFIRE ->
            << <<DEVID, Hex32(17680, 57427)>>,      \* 0x4510e053
               <<OSCCON, Hex32(0, 4384)>> >>        \* 0x00001120
      [] board = BOARD_MEBII ->
            << <<DEVID, Hex32(17682, 28755)>>,      \* 0x45127053
               <<OSCCON, Hex32(0, 4384)>> >>
      [] board = BOARD_EXPLORER16 ->
            << <<DEVID, Hex32(13585, 12371)>>,      \* 0x35113053
               <<OSCCON, Hex32(0, 4384)>> >>
      [] board = BOARD_HMZ144 ->
            << <<DEVID, Hex32(21778, 8275)>>,       \* 0x55122053
               <<OSCCON, Hex32(0, 4386)>> >>        \* 0x00001122

pic32_init(board) ==
    io_reset(StoreAll(<< >>, BoardCells(board)), board)

Boards == {BOARD_WIFIRE, BOARD_HMZ144}

\* One run's part of the state, and the state without a second run.
Run == [iomem |-> iomem, syskey_unlock |-> syskey_unlock,
        Cause_RIPL |-> Cause_RIPL, halted |-> halted, last |-> last,
        key_hist |-> key_hist, acc_hist |-> acc_hist]

NoTwin == [phase |-> "off"]

InitCore(board) ==
    /\ board_type = board
    /\ iomem = pic32_init(board).iomem
    /\ syskey_unlock = pic32_init(board).syskey_unlock
    /\ Cause_RIPL = 0
    /\ halted = "run"
    /\ last = NoCall
    /\ key_hist = << >>
    /\ acc_hist = << >>

InitBoard(board) ==
    /\ InitCore(board)
    /\ logging = FALSE
    /\ logged = << >>
    /\ twin = NoTwin

Init == \E board \in Boards : InitBoard(board)

\* The board of the default case of pic32_init's switch.
InitDefault == InitBoard(BOARD_WIFIRE)

(***************************************************************************)
(* Spec: the system controller (SYSKEY, RSWRST and its neighbours) under   *)
(* full-word accesses, with source 0 raised and cleared in between.        *)
(***************************************************************************)
ONE == {0}

SysWrites ==
    {<<SYSKEY, KEY1>>, <<SYSKEY, KEY2>>, <<SYSKEY, ONE>>,
     <<RSWRST, ONE>>, <<RSWRST, KEY2>>, <<Plus(RSWRST, 8), ONE>>,
     <<DEVID, ONE>>, <<NOREG, ONE>>}

SysReads == {SYSKEY, RSWRST, DEVID, NOREG}

SysWrite == \E wr \in SysWrites : pic32_io_write(wr[1], wr[2], 4)

SysRead == \E addr \in SysReads : pic32_io_read(addr, 4, {})

SysRaise == irq_raise(0)

SysClear == irq_clear(0)

Next == SysWrite \/ SysRead \/ SysRaise \/ SysClear

Spec == Init /\ [][Next]_vars

(***************************************************************************)
(* SpecAlias: registers with CLR/SET/INV addresses under full-word         *)
(* accesses: PB1DIV (WRITEOP, return), RSWRST (WRITEOP, break) and IEC0    *)
(* (WRITEOP, goto irq).                                                    *)
(***************************************************************************)
AliasOffsets(reg) == {Plus(reg, k) : k \in {0, 4, 8, 12}}

AliasWrites ==
    (AliasOffsets(PBDIV(1)) \X {Hex32(0, 5), Hex32(0, 6)})
    \cup (AliasOffsets(RSWRST) \X {Hex32(0, 6)})
    \cup (AliasOffsets(IEC(0)) \X {Hex32(0, 5)})

AliasReads == AliasOffsets(PBDIV(1)) \cup {IEC(0), Plus(IEC(0), 8), INTSTAT}

AliasWrite == \E wr \in AliasWrites : pic32_io_write(wr[1], wr[2], 4)

AliasRead == \E addr \in AliasReads : pic32_io_read(addr, 4, {})

NextAlias == AliasWrite \/ AliasRead

SpecAlias == InitDefault /\ [][NextAlias]_vars

(***************************************************************************)
(* SpecNarrow: byte, half-word and word accesses at every byte offset of   *)
(* OSCCON (STORAGE), PB1DIV (WRITEOP) and the read-only registers, and     *)
(* word accesses to IPTMR.                                                 *)
(***************************************************************************)
Widths == {1, 2, 4}

ByteOffsets(word, bytes) ==
    {Plus(word, k) : k \in IF bytes = 4 THEN {0} ELSE 0..3}

NarrowWrites ==
    {<<a, b, d>> : a \in ByteOffsets(OSCCON, 1), b \in {1}, d \in {Hex32(0, 421)}}
    \cup {<<a, b, d>> : a \in ByteOffsets(OSCCON, 2), b \in {2},
                        d \in {Hex32(1, 32858)}}
    \cup {<<OSCCON, 4, Hex32(1, 32858)>>,
          <<IPTMR, 4, Hex32(0, 421)>>,
          <<PBDIV(1), 1, Hex32(0, 421)>>,
          <<Plus(PBDIV(1), 1), 1, Hex32(0, 421)>>,
          <<Plus(PBDIV(1), 10), 2, Hex32(1, 32858)>>}
    \cup {<<a, b, Hex32(0, 421)>> : a \in {DEVID, Plus(DEVID, 3), INTSTAT,
                                            URXREG(1), Plus(URXREG(6), 2)},
                                     b \in Widths}

NarrowReads ==
    {<<a, b>> : a \in ByteOffsets(OSCCON, 1), b \in {1, 2}}
    \cup {<<OSCCON, 4>>, <<PBDIV(1), 4>>, <<DEVID, 4>>, <<Plus(DEVID, 2), 2>>,
          <<IPTMR, 4>>}

NarrowWrite == \E wr \in NarrowWrites : pic32_io_write(wr[1], wr[3], wr[2])

NarrowRead == \E rd \in NarrowReads : pic32_io_read(rd[1], rd[2], {})

NextNarrow == NarrowWrite \/ NarrowRead

SpecNarrow == InitDefault /\ [][NextNarrow]_vars

(***************************************************************************)
(* SpecIrq: the interrupt controller: sources 0..IrqHigh and the last      *)
(* source, raised and cleared by calls and by writes to IFS, with their    *)
(* enable bits and priority fields written through IEC and IPC.            *)
(***************************************************************************)
IrqHigh == 1

IrqInputs == (0..IrqHigh) \cup {PIC32_IRQ_LAST}

\* Priority words for IPC0 (sources 0..3, one byte each, level in bits 4:2).
PrioTie == {3, 11, 19}                \* sources 0, 1, 2 at level 2
PrioMixed == {0, 1, 2, 10, 12, 18}    \* 0: level 1, sub 3; 1: level 5; 2: level 1

IrqWrites ==
    {<<Plus(IEC(0), 8), 4, 0..IrqHigh>>,
     <<Plus(IEC(0), 4), 4, {0}>>,
     <<Plus(IEC(0), 12), 4, {0}>>,
     <<IEC(0), 4, {1}>>,
     <<Plus(IEC(5), 8), 4, {30}>>,
     <<Plus(IFS(0), 4), 4, {0}>>,
     <<Plus(IFS(0), 8), 4, {1}>>,
     <<IPC(0), 4, PrioTie>>,
     <<IPC(0), 4, PrioMixed>>,
     <<Plus(IPC(0), 1), 1, {2, 3, 4}>>,
     <<Plus(IPC(47), 8), 4, {19}>>}

IrqReads == {INTSTAT}

IrqWrite == \E wr \in IrqWrites : pic32_io_write(wr[1], wr[3], wr[2])

IrqRead == \E addr \in IrqReads : pic32_io_read(addr, 4, {})

IrqRaise == \E irq \in IrqInputs : irq_raise(irq)

IrqClear == \E irq \in IrqInputs : irq_clear(irq)

NextIrq == IrqWrite \/ IrqRead \/ IrqRaise \/ IrqClear

SpecIrq == InitDefault /\ [][NextIrq]_vars

(***************************************************************************)
(* SpecReset: io_reset as a procedure, run on the storage that writes to   *)
(* OSCCON, IEC0 and IPC0 and irq_raise/irq_clear of source 0 have left.    *)
(* In io_write32 the call stands behind the test of syskey_unlock == 2.    *)
(***************************************************************************)
io_reset_run ==
    /\ halted = "run"
    /\ iomem' = io_reset(iomem, board_type).iomem
    /\ syskey_unlock' = io_reset(iomem, board_type).syskey_unlock
    /\ last' = [NoCall EXCEPT !.op = "reset", !.reset = TRUE]
    /\ acc_hist' = LastN(Append(acc_hist, "other"), 3)
    /\ logged' = << >>
    /\ UNCHANGED <<Cause_RIPL, board_type, halted, key_hist, logging, twin>>

ResetWrites ==
    {<<OSCCON, ONE>>, <<Plus(IEC(0), 8), ONE>>, <<IPC(0), PrioTie>>}

ResetReads == {OSCCON, DEVID, INTSTAT}

ResetWrite == \E wr \in ResetWrites : pic32_io_write(wr[1], wr[2], 4)

ResetRead == \E addr \in ResetReads : pic32_io_read(addr, 4, {})

ResetRaise == irq_raise(0)

ResetClear == irq_clear(0)

NextReset ==
    ResetWrite \/ ResetRead \/ ResetRaise \/ ResetClear \/ io_reset_run

SpecReset == Init /\ [][NextReset]_vars

(***************************************************************************)
(* SpecLog: two runs given the same accesses and calls, one with the log   *)
(* level set and one without.  The run that is ahead by one call is put    *)
(* aside in twin (log_swap), the other run is given the same call under    *)
(* the other setting of logging, and the two are compared (log_join).      *)
(***************************************************************************)
InitLog ==
    /\ InitCore(BOARD_WIFIRE)
    /\ logging = FALSE
    /\ logged = << >>
    /\ twin = [phase |-> "lead", run |-> Run, mark |-> NoCall]

log_swap ==
    /\ twin.phase = "lead"
    /\ Run # twin.run
    /\ iomem' = twin.run.iomem
    /\ syskey_unlock' = twin.run.syskey_unlock
    /\ Cause_RIPL' = twin.run.Cause_RIPL
    /\ halted' = twin.run.halted
    /\ last' = twin.run.last
    /\ key_hist' = twin.run.key_hist
    /\ acc_hist' = twin.run.acc_hist
    /\ twin' = [phase |-> "replay", run |-> Run, mark |-> twin.run.last]
    /\ logging' = ~logging
    /\ logged' = << >>
    /\ UNCHANGED board_type

log_join ==
    /\ twin.phase = "replay"
    /\ last # twin.mark
    /\ twin' = [twin EXCEPT !.phase = "lead"]
    /\ UNCHANGED <<iomem, syskey_unlock, Cause_RIPL, board_type, halted, last,
                   key_hist, acc_hist, logging, logged>>

\* A call is given to a run when the two runs stand at the same point, or
\* when this run is the one behind; then it is the call the other run got.
LogTurn ==
    \/ twin.phase = "lead" /\ Run = twin.run
    \/ twin.phase = "replay" /\ last = twin.mark

SameCall ==
    twin.phase = "replay"
    => /\ last'.op = twin.run.last.op
       /\ last'.addr = twin.run.last.addr
       /\ last'.bytes = twin.run.last.bytes
       /\ last'.data = twin.run.last.data
       /\ last'.irq = twin.run.last.irq

LogWrites ==
    {<<DEVID, ONE>>, <<OSCCON, ONE>>, <<Plus(IEC(0), 8), ONE>>,
     <<IPC(0), PrioTie>>, <<Plus(IFS(0), 4), ONE>>, <<NOREG, ONE>>}

LogReads == {INTSTAT, OSCCON, NOREG}

LogWrite ==
    /\ LogTurn
    /\ \E wr \in LogWrites : pic32_io_write(wr[1], wr[2], 4)
    /\ SameCall

LogRead ==
    /\ LogTurn
    /\ \E addr \in LogReads : pic32_io_read(addr, 4, {})
    /\ SameCall

LogRaise == LogTurn /\ irq_raise(0) /\ SameCall

LogClear == LogTurn /\ irq_clear(0) /\ SameCall

NextLog ==
    LogWrite \/ LogRead \/ LogRaise \/ LogClear \/ log_swap \/ log_join

SpecLog == InitLog /\ [][NextLog]_vars

(***************************************************************************)
(* SpecPeriph: the registers whose write case calls a collaborator or      *)
(* keeps a read-only mask: UART 1, SPI 1, ports A and K, RTCCON, Ethernet. *)
(***************************************************************************)
PeriphWrites ==
    {<<UTXREG(1), Hex32(0, 65)>>,
     <<UMODE(1), {15}>>,
     <<USTA(1), {0, 10}>>,
     <<Plus(USTA(1), 4), {4, 10}>>,
     <<SPICON(1), {15}>>,
     <<Plus(SPISTAT(1), 8), {0, 6}>>,
     <<Plus(SPISTAT(1), 4), {3, 6}>>,
     <<SPIBUF(1), Hex32(0, 90)>>,
     <<Plus(LAT(0), 12), {0}>>,
     <<Plus(PORT(9), 4), {1}>>,
     <<Plus(PORT(9), 12), {1}>>,
     <<PORT(0), {0, 5}>>,
     <<Plus(PORT(0), 8), {1}>>,
     <<RTCCON, {1, 15}>>,
     <<Plus(RTCCON, 8), {2, 6}>>,
     <<Plus(RTCCON, 4), {15}>>,
     <<ETHCON1, {15}>>,
     <<EMAC1MCMD, {}>>,
     <<EMAC1MWTD, {}>>}

PeriphReads == {UTXREG(1), USTA(1), LAT(0), RTCCON}

PeriphWrite == \E wr \in PeriphWrites : pic32_io_write(wr[1], wr[2], 4)

PeriphRead == \E addr \in PeriphReads : pic32_io_read(addr, 4, {})

NextPeriph == PeriphWrite \/ PeriphRead

SpecPeriph == InitDefault /\ [][NextPeriph]_vars

(***************************************************************************)
(* Properties of the unlock/reset state machine, checked under Spec.       *)
(***************************************************************************)
LastWriteTo(offset) ==
    last.op = "write" /\ WordAligned(last.addr) = offset

\* C2: from the locked state, SYSKEY <- 0xaa996655 then SYSKEY <- 0x556699aa,
\* with no other SYSKEY write in between, leaves syskey_unlock = 2 when the
\* second write returns.
C2_UnlockSequenceReachesStage2 ==
    (/\ LastWriteTo(SYSKEY)
     /\ halted = "run"
     /\ Len(key_hist) = 2
     /\ key_hist[1] = [pre |-> 0, data |-> KEY1]
     /\ key_hist[2].data = KEY2)
    => syskey_unlock = 2

\* The cells io_reset assigns hold the values it assigns.
HoldsResetDefaults ==
    \A i \in 1..Len(ResetCells(board_type)) :
        VALUE(iomem, ResetCells(board_type)[i][1]) = ResetCells(board_type)[i][2]

\* C3: the accesses SYSKEY <- 0xaa996655, SYSKEY <- 0x556699aa, RSWRST <- a
\* value with bit 0 set, one after the other, trigger the reset: io_reset
\* runs, the sdcard reset and the system reset request are issued, and when
\* the RSWRST write returns the cells hold their reset defaults and the
\* unlock state is locked.
C3_UnlockThenResetWriteResets ==
    acc_hist = <<"KEY1", "KEY2", "RSWRST1">>
    => /\ last.reset /\ last.sdreset /\ last.sysreq
       /\ HoldsResetDefaults
       /\ syskey_unlock = 0

\* C4: a write to RSWRST runs the reset (io_reset, the sdcard reset, the
\* system reset request) only if syskey_unlock is 2 when the write arrives
\* and the two most recent SYSKEY writes were 0xaa996655 then 0x556699aa.
C4_ResetOnlyFromStage2 ==
    [][(last'.reset \/ last'.sdreset \/ last'.sysreq)
       => /\ last'.op = "write"
          /\ Canonical(last'.addr) = RSWRST
          /\ syskey_unlock = 2
          /\ Len(key_hist) = 2
          /\ key_hist[1].data = KEY1
          /\ key_hist[2].data = KEY2]_vars

\* A write of the reset bit to RSWRST has returned when the only magic word
\* written so far is the first, and no reset has run.
C4_Witness ==
    /\ LastWriteTo(RSWRST)
    /\ 0 \in last.data
    /\ halted = "run"
    /\ key_hist = <<[pre |-> 0, data |-> KEY1]>>
    /\ ~last.reset

\* The offsets without a case in io_read32 / io_write32.
NoReadCase(offset) ==
    offset \notin ReadStorage \cup ReadZeroed \cup {RSWRST} \cup ReadFromHook

NoWriteCase(offset) ==
    /\ Canonical(offset) \notin WriteopReturn \cup WriteopIrq \cup {RSWRST}
                                 \cup WriteopHook \cup WriteopxPort
                                 \cup WriteoprRegs
    /\ offset \notin ReadonlyRegs \cup StorageBreak \cup {SYSKEY}
                      \cup StorageHook

\* C8: a read or a write at an offset with no case in io_read32 / io_write32
\* ends the simulation with exit(1), and no cell, Cause.RIPL or the unlock
\* state has changed.
C8_UnmappedAccessHaltsUnchanged ==
    [][(\/ last'.op = "read" /\ NoReadCase(WordAligned(last'.addr))
        \/ last'.op = "write" /\ NoWriteCase(WordAligned(last'.addr)))
       => /\ halted' = "exit1"
          /\ iomem' = iomem
          /\ syskey_unlock' = syskey_unlock
          /\ Cause_RIPL' = Cause_RIPL
          /\ ~last'.hard /\ ~last'.reset]_vars

\* A write at an offset without a register has halted the simulation.
C8_Witness ==
    /\ LastWriteTo(NOREG)
    /\ last.data # {}
    /\ halted = "exit1"

(***************************************************************************)
(* Properties of the CLR/SET/INV addresses, checked under SpecAlias.       *)
(***************************************************************************)
AliasRegs == WriteopReturn \cup WriteopIrq \cup {RSWRST}

\* C1: for a register declared with WRITEOP, old stored value a and data b,
\* a full-word write of b to the register's address leaves its cell equal to
\* b, to +4 equal to a & ~b, to +8 equal to a | b and to +12 equal to a ^ b.
C1_AliasWriteOps ==
    [][(/\ last'.op = "write"
        /\ last'.bytes = 4
        /\ Canonical(last'.addr) \in AliasRegs)
       => LET reg == Canonical(last'.addr)
              a == VALUE(iomem, reg)
              b == last'.data
              k == last'.addr[3]
          IN  /\ halted' = "run"
              /\ k = 0 => VALUE(iomem', reg) = b
              /\ k = 4 => VALUE(iomem', reg) = a \cap (WordBits \ b)
              /\ k = 8 => VALUE(iomem', reg) = a \cup b
              /\ k = 12 => VALUE(iomem', reg)
                             = {i \in WordBits : (i \in a) # (i \in b)}]_vars

\* 0x5 has been written to PB1DIVCLR and PB1DIV, 0x8801 or 0x8805 before, holds
\* 0x8800.
C1_Witness ==
    /\ last.op = "write"
    /\ last.addr = Plus(PBDIV(1), 4)
    /\ last.data = Hex32(0, 5)
    /\ VALUE(iomem, PBDIV(1)) = Hex32(0, 34816)

\* C10: a write to the +4, +8 or +12 address of a register declared with
\* WRITEOP leaves the cell at the address written unchanged.
C10_AliasWriteLeavesAliasCell ==
    [][(/\ last'.op = "write"
        /\ last'.addr[3] \in {4, 8, 12}
        /\ Canonical(last'.addr) \in AliasRegs)
       => VALUE(iomem', last'.addr) = VALUE(iomem, last'.addr)]_vars

(***************************************************************************)
(* Properties of the access widths, checked under SpecNarrow.              *)
(***************************************************************************)
\* The bits of the word that an access of the width at the address covers.
ByteLane(addr, bytes) ==
    CASE bytes = 1 -> {i \in WordBits : i \div 8 = addr[3] % 4}
      [] bytes = 2 -> {i \in WordBits : i \div 16 = (addr[3] \div 2) % 2}
      [] OTHER -> WordBits

\* The value of the width, moved to the lane of the address.
InLane(addr, v, bytes) ==
    CASE bytes = 1 -> {i + 8 * (addr[3] % 4) : i \in v \cap (0..7)}
      [] bytes = 2 -> {i + 16 * ((addr[3] \div 2) % 2) : i \in v \cap (0..15)}
      [] OTHER -> v

\* C7: after a write of width 1, 2 or 4 of v at any byte offset of a word, a
\* full-word read of the word returns v in the lane of the address and the
\* bits of the word before the write everywhere else.
C7_NarrowWriteKeepsOtherBytes ==
    [][(/\ last'.op = "write"
        /\ WordAligned(last'.addr) \in {OSCCON, PBDIV(1)})
       => /\ halted' = "run"
          /\ io_read32(iomem', WordAligned(last'.addr), {}).data
               = (VALUE(iomem, WordAligned(last'.addr))
                      \ ByteLane(last'.addr, last'.bytes))
                 \cup InLane(last'.addr, last'.data, last'.bytes)]_vars

ReadOnlyWords == {INTSTAT, DEVID} \cup {URXREG(n) : n \in 1..6}

\* C9: a write of any value and width to INTSTAT, DEVID or UxRXREG returns
\* without exit, and every cell, Cause.RIPL and the unlock state are as
\* before it; cpu_interrupt is not called.
C9_ReadonlyWriteDiscarded ==
    [][(/\ last'.op = "write"
        /\ WordAligned(last'.addr) \in ReadOnlyWords)
       => /\ halted' = "run"
          /\ iomem' = iomem
          /\ syskey_unlock' = syskey_unlock
          /\ Cause_RIPL' = Cause_RIPL
          /\ ~last'.hard /\ ~last'.reset]_vars

\* A byte write at DEVID+3 has returned and DEVID holds the board's id.
C9_Witness ==
    /\ last.op = "write"
    /\ last.addr = Plus(DEVID, 3)
    /\ last.bytes = 1
    /\ last.data # {}
    /\ halted = "run"
    /\ VALUE(iomem, DEVID) = Hex32(17680, 57427)

(***************************************************************************)
(* Properties of the interrupt arbitration, checked under SpecIrq.         *)
(***************************************************************************)
\* The sources 0..PIC32_IRQ_LAST whose flag and enable bits are both set.
PendingEnabled(m) ==
    {irq \in UNION {{32 * n + b : b \in VALUE(m, IFS(n)) \cap VALUE(m, IEC(n))} :
                       n \in 0..5} : irq <= PIC32_IRQ_LAST}

\* The 3-bit level of a source: bits 4:2 of its byte of its IPC word.
LevelOf(m, irq) ==
    ToNat({b - (8 * (irq % 4) + 2) :
              b \in VALUE(m, IPC(irq \div 4))
                        \cap ((8 * (irq % 4) + 2)..(8 * (irq % 4) + 4))})

\* Of the sources S, the one of the highest level and, among those, of the
\* lowest index.
Best(m, S) ==
    CHOOSE i \in S : \A j \in S :
        \/ LevelOf(m, i) > LevelOf(m, j)
        \/ LevelOf(m, i) = LevelOf(m, j) /\ i <= j

\* vector | (level << 8)
ArbWord(vector, level) == Bits16(vector) \cup Shl(Bits16(level), 8)

\* C5 as stated: whenever some source is pending and enabled, INTSTAT names
\* the pending-and-enabled source of the highest level and, among those, of
\* the lowest index.
C5_ArbitrationNamesBestPending ==
    PendingEnabled(iomem) # {}
    => LET best == Best(iomem, PendingEnabled(iomem))
       IN  VALUE(iomem, INTSTAT) = ArbWord(best, LevelOf(iomem, best))

\* The pending-and-enabled sources of a non-zero level.
Qualifying(m) == {irq \in PendingEnabled(m) : LevelOf(m, irq) > 0}

\* The arbitration result of the banks of m.
ArbResult(m) ==
    IF Qualifying(m) = {} THEN {}
    ELSE LET best == Best(m, Qualifying(m))
         IN  ArbWord(best, LevelOf(m, best))

\* C5 amended: in every state INTSTAT names, of the pending-and-enabled
\* sources of a non-zero level, the one of the highest level and, among
\* those, of the lowest index; it is 0 when there is no such source.  It is a
\* function of the banks alone, whatever the order of the calls.
C5_ArbitrationNamesBestNonZero == VALUE(iomem, INTSTAT) = ArbResult(iomem)

\* Sources 0 and 1 are pending and enabled at the same level 2, source 0 was
\* raised last, and INTSTAT names source 0.
C5_Witness ==
    /\ {0, 1} \subseteq PendingEnabled(iomem)
    /\ LevelOf(iomem, 0) = 2 /\ LevelOf(iomem, 1) = 2
    /\ last.op = "raise" /\ last.irq = 0
    /\ VALUE(iomem, INTSTAT) = ArbWord(0, 2)

\* C6: when a write to an IFSn, IECn or IPCn address (plain, CLR, SET or INV)
\* or a raise or clear call returns, INTSTAT is vector | level << 8 of the
\* arbitration over the banks as they now are, or 0 when no source qualifies.
C6_IntstatNeverStale ==
    [][(\/ last'.op \in {"raise", "clear"}
        \/ last'.op = "write" /\ Canonical(last'.addr) \in WriteopIrq)
       => /\ halted' = "run"
          /\ VALUE(iomem', INTSTAT) = ArbResult(iomem')]_vars

\* A write of the priorities has returned with source 1 (level 5) taking
\* over from source 0 (level 1).
C6_Witness ==
    /\ last.op = "write"
    /\ Canonical(last.addr) = IPC(0)
    /\ last.data = PrioMixed
    /\ {0, 1} \subseteq PendingEnabled(iomem)
    /\ VALUE(iomem, INTSTAT) = ArbWord(1, 5)

(***************************************************************************)
(* Reads at the CLR/SET/INV addresses, checked under SpecAlias.            *)
(***************************************************************************)
\* A full-word read at the +4, +8 or +12 address of a register declared
\* with WRITEOP.
AliasReadStep ==
    /\ last'.op = "read"
    /\ last'.bytes = 4
    /\ last'.addr[3] \in {4, 8, 12}
    /\ Canonical(last'.addr) \in AliasRegs

\* C11: a read at the +4, +8 or +12 address of a register declared with
\* WRITEOP returns the value the register's own cell holds.
C11_AliasReadReturnsCanonical ==
    [][AliasReadStep
       => /\ halted' = "run"
          /\ last'.value = VALUE(iomem, Canonical(last'.addr))]_vars

\* C12: a read at the +4, +8 or +12 address of a register declared with
\* WRITEOP returns, with the register's value or with zero; it does not end
\* in the default label's exit(1).
C12_AliasReadNeverFatal ==
    [][AliasReadStep
       => /\ halted' = "run"
          /\ last'.value \in {VALUE(iomem, Canonical(last'.addr)), {}}]_vars

(***************************************************************************)
(* raise and clear, checked under SpecIrq.                                 *)
(***************************************************************************)
\* C13: irq_raise(i) called right after irq_raise(i) leaves the flag banks,
\* INTSTAT and Cause.RIPL as the first call left them, and does not call
\* cpu_interrupt.
C13_RaiseTwiceIsRaiseOnce ==
    [][(last.op = "raise" /\ last'.op = "raise" /\ last'.irq = last.irq)
       => /\ iomem' = iomem
          /\ Cause_RIPL' = Cause_RIPL
          /\ ~last'.hard]_vars

\* irq_raise(0) has returned right after irq_raise(0), with source 0 selected
\* at level 2.
C13_Witness ==
    /\ last.op = "raise" /\ last.irq = 0 /\ last.rep
    /\ 0 \in PendingEnabled(iomem)
    /\ VALUE(iomem, INTSTAT) = ArbWord(0, 2)
    /\ Cause_RIPL = 2

\* C14: when one source alone is pending and enabled, irq_clear of that
\* source leaves INTSTAT at 0 and Cause.RIPL at 0.
C14_ClearOnlyPendingDropsToZero ==
    [][(last'.op = "clear" /\ PendingEnabled(iomem) = {last'.irq})
       => /\ VALUE(iomem', INTSTAT) = {}
          /\ Cause_RIPL' = 0
          /\ PendingEnabled(iomem') = {}]_vars

\* irq_clear has run update_irq_status, the level has dropped to 0 and no
\* source is pending and enabled any more.
C14_Witness ==
    /\ last.op = "clear" /\ last.upd /\ last.hard
    /\ PendingEnabled(iomem) = {}
    /\ VALUE(iomem, INTSTAT) = {}
    /\ Cause_RIPL = 0

\* The lowest and the highest of a set of sources.
Lowest(S) == CHOOSE i \in S : \A j \in S : i <= j
Highest(S) == CHOOSE i \in S : \A j \in S : i >= j

\* C15: with exactly two sources i < j pending and enabled, at the same
\* non-zero level, INTSTAT names i at that level, and after irq_clear(i) it
\* names j at that level.
C15_TieThenClearSelectsNext ==
    [][(/\ Cardinality(PendingEnabled(iomem)) = 2
        /\ LevelOf(iomem, Lowest(PendingEnabled(iomem)))
             = LevelOf(iomem, Highest(PendingEnabled(iomem)))
        /\ LevelOf(iomem, Lowest(PendingEnabled(iomem))) > 0
        /\ last'.op = "clear"
        /\ last'.irq = Lowest(PendingEnabled(iomem)))
       => LET i == Lowest(PendingEnabled(iomem))
              j == Highest(PendingEnabled(iomem))
          IN  /\ VALUE(iomem, INTSTAT) = ArbWord(i, LevelOf(iomem, i))
              /\ VALUE(iomem', INTSTAT) = ArbWord(j, LevelOf(iomem, i))]_vars

\* irq_clear(0) has returned: source 0, enabled at level 2, is no longer
\* pending, source 1 alone is, and INTSTAT names source 1 at level 2 with the
\* level unchanged.
C15_Witness ==
    /\ last.op = "clear" /\ last.irq = 0 /\ last.upd /\ ~last.hard
    /\ 0 \in VALUE(iomem, IEC(0))
    /\ LevelOf(iomem, 0) = 2
    /\ PendingEnabled(iomem) = {1}
    /\ VALUE(iomem, INTSTAT) = ArbWord(1, 2)

\* The level of the arbitration over the banks of m.
NewLevel(m) ==
    IF Qualifying(m) = {} THEN 0 ELSE LevelOf(m, Best(m, Qualifying(m)))

\* C16: a run of update_irq_status calls cpu_interrupt and rewrites
\* Cause.RIPL exactly when the level it computes differs from the level
\* latched before; otherwise Cause.RIPL is as before and cpu_interrupt is not
\* called.
C16_SignalIffLevelChanges ==
    [][last'.upd
       => /\ last'.hard <=> (NewLevel(iomem') # Cause_RIPL)
          /\ Cause_RIPL' = NewLevel(iomem')
          /\ ~last'.hard => Cause_RIPL' = Cause_RIPL]_vars

\* irq_raise(0) has run update_irq_status with source 1 pending at the same
\* level 2: the vector is now 0, the level is as before and cpu_interrupt was
\* not called.
C16_Witness ==
    /\ last.op = "raise" /\ last.irq = 0 /\ last.upd /\ ~last.hard
    /\ {0, 1} \subseteq PendingEnabled(iomem)
    /\ LevelOf(iomem, 1) = 2
    /\ VALUE(iomem, INTSTAT) = ArbWord(0, 2)
    /\ Cause_RIPL = 2

(***************************************************************************)
(* More properties of the unlock/reset state machine, checked under Spec.  *)
(***************************************************************************)
\* C17: a write to RSWRST with bit 0 set while syskey_unlock is not 2
\* returns without exit, runs no reset (io_reset, the sdcard reset, the
\* system reset request), and leaves syskey_unlock and every cell but
\* RSWRST's as they were.
C17_LockedResetWriteIgnored ==
    [][(/\ last'.op = "write"
        /\ WordAligned(last'.addr) = RSWRST
        /\ 0 \in last'.data
        /\ syskey_unlock # 2)
       => /\ halted' = "run"
          /\ ~last'.reset /\ ~last'.sdreset /\ ~last'.sysreq
          /\ syskey_unlock' = syskey_unlock
          /\ Cause_RIPL' = Cause_RIPL
          /\ \A o \in (DOMAIN iomem \cup DOMAIN iomem') \ {RSWRST} :
                 VALUE(iomem', o) = VALUE(iomem, o)]_vars

\* The reset bit has been written to RSWRST after both magic words: RSWRST
\* holds it, SYSKEY still holds the second word, and no reset has run.
C17_Witness ==
    /\ LastWriteTo(RSWRST)
    /\ last.data = ONE
    /\ halted = "run"
    /\ syskey_unlock = 0
    /\ VALUE(iomem, RSWRST) = ONE
    /\ VALUE(iomem, SYSKEY) = KEY2
    /\ ~last.reset /\ ~last.sdreset /\ ~last.sysreq

StartedSequence ==
    /\ key_hist # << >>
    /\ key_hist[Len(key_hist)] = [pre |-> 0, data |-> KEY1]

\* The sequence has been completed from the locked state: the last two
\* SYSKEY writes were the first magic word, arriving with syskey_unlock = 0,
\* and the second.
CompletedSequence ==
    /\ Len(key_hist) = 2
    /\ key_hist[1] = [pre |-> 0, data |-> KEY1]
    /\ key_hist[2].data = KEY2

\* C19: when the unlock sequence has been started or completed (or
\* syskey_unlock is 1 or 2), a write to SYSKEY of a value that does not
\* continue the sequence returns without exit and leaves syskey_unlock = 0.
C19_MalformedSequenceLocks ==
    [][(/\ last'.op = "write"
        /\ WordAligned(last'.addr) = SYSKEY
        /\ \/ StartedSequence /\ last'.data # KEY2
           \/ CompletedSequence
           \/ syskey_unlock \in {1, 2} /\ last'.data # KEY2)
       => /\ halted' = "run"
          /\ syskey_unlock' = 0]_vars

\* 0x1 has been written to SYSKEY right after the first magic word, and the
\* unlock state is locked.
C19_Witness ==
    /\ LastWriteTo(SYSKEY)
    /\ key_hist = <<[pre |-> 0, data |-> KEY1], [pre |-> 0, data |-> ONE]>>
    /\ halted = "run"
    /\ syskey_unlock = 0

(***************************************************************************)
(* Reads of the three widths, checked under SpecNarrow.                    *)
(***************************************************************************)
\* Byte k of a word, and its lower and upper half, as values.
ByteOf(w, k) == {b - 8 * k : b \in w \cap ((8 * k)..(8 * k + 7))}
LowHalf(w) == w \cap (0..15)
HighHalf(w) == {b - 16 : b \in w \cap (16..31)}

\* C20: a read of width 1 at byte offset k returns byte k of the word's
\* value; a read of width 2 returns bits 16..31 when address bit 1 is set and
\* bits 0..15 otherwise; a read of width 4 returns the whole word.
C20_NarrowReadSelectsLane ==
    [][(/\ last'.op = "read"
        /\ halted' = "run"
        /\ WordAligned(last'.addr) \in {OSCCON, PBDIV(1), DEVID})
       => LET w == VALUE(iomem, WordAligned(last'.addr))
              k == last'.addr[3] % 4
          IN  /\ last'.bytes = 1 => last'.value = ByteOf(w, k)
              /\ last'.bytes = 2 =>
                   last'.value = IF k \in {2, 3} THEN HighHalf(w)
                                 ELSE LowHalf(w)
              /\ last'.bytes = 4 => last'.value = w]_vars

\* A byte read at OSCCON+1 has returned 0x11, byte 1 of 0x00001120.
C20_Witness ==
    /\ last.op = "read"
    /\ last.addr = Plus(OSCCON, 1)
    /\ last.bytes = 1
    /\ VALUE(iomem, OSCCON) = Hex32(0, 4384)
    /\ last.value = Hex32(0, 17)

(***************************************************************************)
(* The SYSKEY transitions on the value written, checked under Spec.        *)
(***************************************************************************)
\* C22: a write of 0xaa996655 to SYSKEY arriving with syskey_unlock = 0
\* leaves syskey_unlock = 1, and a write of 0x556699aa arriving with
\* syskey_unlock = 1 leaves syskey_unlock = 2: the tests are made on the
\* value the access writes.
C22_TransitionsOnWrittenValue ==
    [][(last'.op = "write" /\ WordAligned(last'.addr) = SYSKEY)
       => /\ (syskey_unlock = 0 /\ last'.data = KEY1) => syskey_unlock' = 1
          /\ (syskey_unlock = 1 /\ last'.data = KEY2) => syskey_unlock' = 2]_vars

\* C23: syskey_unlock changes only in a write to SYSKEY or in a reset: every
\* read, every write to another register (a write to RSWRST that is not
\* honoured among them) and every irq_raise or irq_clear leaves it as it was.
C23_UnlockChangesOnlyOnSyskeyOrReset ==
    [][(~(last'.op = "write" /\ WordAligned(last'.addr) = SYSKEY)
        /\ ~last'.reset)
       => syskey_unlock' = syskey_unlock]_vars

\* irq_raise(0) has set the flag after two writes to SYSKEY, and the unlock
\* state is the one the last SYSKEY write left.
C23_Witness ==
    /\ last.op = "raise" /\ last.upd
    /\ Len(key_hist) = 2
    /\ syskey_unlock = syskey_step(key_hist[2].pre, key_hist[1].data)

C25_RaiseAlwaysRecomputes ==
    [][last'.op = "raise"
       => /\ last'.upd
          /\ Cause_RIPL' = NewLevel(iomem')]_vars

(***************************************************************************)
\* C26: irq_clear(i) called right after irq_clear(i), or for a source whose
\* flag is not set, leaves the flag banks, INTSTAT and Cause.RIPL as they
\* were and does not call cpu_interrupt.
C26_ClearTwiceIsClearOnce ==
    [][(/\ last'.op = "clear"
        /\ \/ last.op = "clear" /\ last.irq = last'.irq
           \/ last'.irq % 32 \notin VALUE(iomem, IFS(last'.irq \div 32)))
       => /\ iomem' = iomem
          /\ Cause_RIPL' = Cause_RIPL
          /\ ~last'.hard]_vars

\* irq_clear(0) has returned right after irq_clear(0), with source 1 still
\* selected at level 2.
C26_Witness ==
    /\ last.op = "clear" /\ last.irq = 0 /\ last.rep /\ ~last.upd
    /\ 0 \notin VALUE(iomem, IFS(0))
    /\ VALUE(iomem, INTSTAT) = ArbWord(1, 2)
    /\ Cause_RIPL = 2

\* Some source is pending and enabled, and every such source has level 0.
OnlyLevelZeroPending(m) ==
    /\ PendingEnabled(m) # {}
    /\ \A irq \in PendingEnabled(m) : LevelOf(m, irq) = 0

\* C28: when every pending-and-enabled source has level 0, a run of
\* update_irq_status leaves INTSTAT at 0 and Cause.RIPL at 0, as when no
\* source is pending, and calls cpu_interrupt only to bring a non-zero
\* latched level down to 0.
C28_LevelZeroNeverSelected ==
    [][(last'.upd /\ OnlyLevelZeroPending(iomem'))
       => /\ VALUE(iomem', INTSTAT) = {}
          /\ Cause_RIPL' = 0
          /\ Cause_RIPL = 0 => ~last'.hard]_vars

\* irq_raise(1) has run update_irq_status with source 1 enabled at level 0
\* and no other source pending: INTSTAT is 0 and cpu_interrupt was not
\* called.
C28_Witness ==
    /\ last.op = "raise" /\ last.irq = 1 /\ last.upd /\ ~last.hard
    /\ PendingEnabled(iomem) = {1}
    /\ LevelOf(iomem, 1) = 0
    /\ VALUE(iomem, INTSTAT) = {}
    /\ Cause_RIPL = 0

\* The fields of INTSTAT: the level, (INTSTAT >> 8) & 7, and the vector.
IntstatLevel(m) == ToNat(ByteOf(VALUE(m, INTSTAT), 1) \cap (0..2))
IntstatVector(m) == ToNat(ByteOf(VALUE(m, INTSTAT), 0))

\* C30: in every state Cause.RIPL is the level field of INTSTAT, and when
\* that level is not 0 the vector field of INTSTAT is a source that is
\* pending and enabled.
C30_RiplIsIntstatLevel ==
    /\ Cause_RIPL = IntstatLevel(iomem)
    /\ IntstatLevel(iomem) # 0 => IntstatVector(iomem) \in PendingEnabled(iomem)

\* Source 190 is selected at level 2 and latched.
C30_Witness ==
    /\ VALUE(iomem, INTSTAT) = ArbWord(PIC32_IRQ_LAST, 2)
    /\ Cause_RIPL = 2
    /\ PIC32_IRQ_LAST \in PendingEnabled(iomem)

(***************************************************************************)
(* The calls of collaborators and the read-only masks, checked under       *)
(* SpecPeriph.                                                             *)
(***************************************************************************)
\* The cell a write at offset is aimed at, and the value the alias rule
\* gives it from the cells m and the data d.
TargetCell(offset) ==
    IF Canonical(offset) \in WriteopxPort THEN LAT(offset[2])
    ELSE Canonical(offset)

AliasRuleValue(m, offset, d) == write_op(VALUE(m, TargetCell(offset)), d, offset)

NewCellValue(m, offset, d) ==
    IF Canonical(offset) \in WriteoprRegs
    THEN (VALUE(m, Canonical(offset)) \cap romask(Canonical(offset)))
         \cup (AliasRuleValue(m, offset, d) \ romask(Canonical(offset)))
    ELSE AliasRuleValue(m, offset, d)

\* C27: whenever a write case calls its collaborator (UxMODE, UxSTA,
\* SPIxCON, LATx, ETHCON1, EMAC1MCMD, EMAC1MWTD, and UxTXREG and SPIxBUF
\* too), the register's cell holds the new value at the time of the call.
C27_HookFindsNewValue ==
    [][(last'.op = "write" /\ last'.hook.name # "none")
       => last'.hook.cell =
              NewCellValue(iomem, WordAligned(last'.addr),
                           AlignData(last'.addr, last'.data, last'.bytes))]_vars

\* A write to a register declared with WRITEOPR has returned.
WriteoprStep ==
    /\ last'.op = "write"
    /\ halted' = "run"
    /\ Canonical(last'.addr) \in WriteoprRegs

C31_LockedRswrstNeverHalts ==
    [][(/\ syskey_unlock # 2
        /\ last'.op \in {"read", "write"}
        /\ Canonical(last'.addr) = RSWRST)
       => /\ halted' = "run"
          /\ ~last'.reset /\ ~last'.sdreset /\ ~last'.sysreq
          /\ (last'.op = "read" /\ last'.addr = RSWRST)
                => last'.value = VALUE(iomem, RSWRST)]_vars

(***************************************************************************)
(* Raising a source that is not enabled, checked under SpecIrq.            *)
(***************************************************************************)
\* C32: irq_raise(i) of a source whose enable bit is clear changes only that
\* source's flag bit: every other cell, INTSTAT among them, and the latched
\* level Cause.RIPL stay as they were, and cpu_interrupt is not called.
C32_RaiseDisabledChangesOnlyFlag ==
    [][(/\ last'.op = "raise"
        /\ (last'.irq % 32) \notin VALUE(iomem, IEC(last'.irq \div 32)))
       => /\ iomem' = Store(iomem, IFS(last'.irq \div 32),
                            VALUE(iomem, IFS(last'.irq \div 32))
                                \cup IrqBit(last'.irq))
          /\ Cause_RIPL' = Cause_RIPL
          /\ ~last'.hard]_vars

\* Source 0 has just been raised with its enable bit clear and its priority
\* level not 0, while source 1 is selected in INTSTAT at a level not 0:
\* update_irq_status ran and left the selection alone.
C32_Witness ==
    /\ last.op = "raise" /\ last.irq = 0 /\ last.upd
    /\ 0 \in VALUE(iomem, IFS(0))
    /\ 0 \notin VALUE(iomem, IEC(0))
    /\ IrqLevel(iomem, 0) > 0
    /\ IntstatVector(iomem) = 1
    /\ IntstatLevel(iomem) > 0
    /\ Cause_RIPL = IntstatLevel(iomem)

(***************************************************************************)
(* Enabling a source that is already pending, checked under SpecIrq.       *)
(***************************************************************************)
\* The flag bit of a source.
FlagSet(m, irq) == (irq % 32) \in VALUE(m, IFS(irq \div 32))

\* The enable bit of a source.
EnableSet(m, irq) == (irq % 32) \in VALUE(m, IEC(irq \div 32))

\* The step is a write to the IEC register of irq, through any of its four
\* addresses, that finds the flag set and the enable bit clear and leaves
\* the enable bit set, with irq at a level not 0 and above the level of
\* every other pending-and-enabled source.
EnablesPending(m, n, l, irq) ==
    /\ l.op = "write"
    /\ Canonical(l.addr) = IEC(irq \div 32)
    /\ FlagSet(m, irq) /\ ~EnableSet(m, irq)
    /\ EnableSet(n, irq)
    /\ IrqLevel(n, irq) > 0
    /\ \A j \in PendingEnabled(n) \ {irq} : LevelOf(n, j) < IrqLevel(n, irq)

\* C33 as stated: a source whose flag is set while its enable bit is clear
\* stays pending until irq_clear or a write to its IFS register; and when a
\* write to its IEC register (plain or alias) sets the enable bit while its
\* level is not 0 and above that of every other pending-and-enabled source,
\* the write returns with the source selected in INTSTAT at its level,
\* Cause.RIPL at that level and cpu_interrupt called.
C33_EnableSelectsPendingSource ==
    [][\A irq \in IrqInputs :
          /\ (/\ FlagSet(iomem, irq)
              /\ ~(last'.op = "clear" /\ last'.irq = irq)
              /\ ~(last'.op = "write"
                   /\ Canonical(last'.addr) = IFS(irq \div 32)))
             => FlagSet(iomem', irq)
          /\ EnablesPending(iomem, iomem', last', irq)
             => /\ IntstatVector(iomem') = irq
                /\ IntstatLevel(iomem') = IrqLevel(iomem', irq)
                /\ Cause_RIPL' = IrqLevel(iomem', irq)
                /\ last'.hard]_vars

\* C33 amended: as above, but cpu_interrupt is called by the write exactly
\* when the level of the source differs from the level latched before the
\* write; a plain write to IEC that sets the enable bit of the source and
\* clears that of the source selected so far, both of one level, changes the
\* vector of INTSTAT and makes no call.
C33_EnableSelectsAndLatches ==
    [][\A irq \in IrqInputs :
          /\ (/\ FlagSet(iomem, irq)
              /\ ~(last'.op = "clear" /\ last'.irq = irq)
              /\ ~(last'.op = "write"
                   /\ Canonical(last'.addr) = IFS(irq \div 32)))
             => FlagSet(iomem', irq)
          /\ EnablesPending(iomem, iomem', last', irq)
             => /\ IntstatVector(iomem') = irq
                /\ IntstatLevel(iomem') = IrqLevel(iomem', irq)
                /\ Cause_RIPL' = IrqLevel(iomem', irq)
                /\ last'.hard <=> (IrqLevel(iomem', irq) # Cause_RIPL)]_vars

\* The last source, whose flag only irq_raise sets here, has just been
\* enabled by a write to IEC5SET: it is selected at level 2 with Cause.RIPL
\* at 2 and cpu_interrupt called, over source 0 pending and enabled at
\* level 1.
C33_Witness ==
    /\ last.op = "write" /\ last.addr = Plus(IEC(5), 8) /\ last.hard
    /\ IntstatVector(iomem) = PIC32_IRQ_LAST
    /\ IntstatLevel(iomem) = 2
    /\ Cause_RIPL = 2
    /\ 0 \in PendingEnabled(iomem)
    /\ LevelOf(iomem, 0) = 1

(***************************************************************************)
(* Writes to IFSxSET / IFSxCLR against irq_raise / irq_clear, checked      *)
(* under SpecIrq.                                                          *)
(***************************************************************************)
\* The step is a full-word write of the single bit of irq to the address at
\* distance k from the IFS register of irq.
WritesFlagBit(l, irq, k) ==
    /\ l.op = "write" /\ l.bytes = 4
    /\ l.addr = Plus(IFS(irq \div 32), k)
    /\ l.data = IrqBit(irq)

\* C34: a write of the single bit 1 << (i % 32) to the SET address of
\* IFS(i / 32) leaves every cell (the flag banks and INTSTAT among them) and
\* Cause.RIPL as irq_raise(i) called in the same state would have left them;
\* a write of that bit to the CLR address leaves them as irq_clear(i) would.
C34_FlagWriteMatchesCall ==
    [][\A irq \in IrqInputs :
          /\ WritesFlagBit(last', irq, 8)
             => /\ iomem' = raise_flag(iomem, Cause_RIPL, irq).iomem
                /\ Cause_RIPL' = raise_flag(iomem, Cause_RIPL, irq).ripl
          /\ WritesFlagBit(last', irq, 4)
             => /\ iomem' = clear_flag(iomem, Cause_RIPL, irq).iomem
                /\ Cause_RIPL' = clear_flag(iomem, Cause_RIPL, irq).ripl]_vars

\* A write of bit 1 to IFS0SET has just set the flag of source 1, which is
\* enabled: the write selected it in INTSTAT and changed Cause.RIPL.
C34_Witness ==
    /\ WritesFlagBit(last, 1, 8) /\ last.hard
    /\ IntstatVector(iomem) = 1
    /\ Cause_RIPL = IrqLevel(iomem, 1)
    /\ Cause_RIPL > 0

(***************************************************************************)
(* The bits of the priority fields the arbitration reads, checked under    *)
(* SpecIrq.                                                                *)
(***************************************************************************)
\* The bits of an IPC word outside bits 4:2 of its four fields: the two
\* sub-priority bits and the three high bits of each byte.
OtherFieldBits == {b \in 0..31 : (b % 8) \notin 2..4}

\* The IPC words whose fields a source of IrqInputs has: IPC0 and IPC47.
PerturbedWords == {IPC(irq \div 4) : irq \in IrqInputs}

\* Settings of the bits outside the levels: all clear, the sub-priority of
\* source 4n at 3, that of source 4n+1 at 3, the high bits of the two low
\* fields set, that of source 4n+2 at 3, all set.
Perturbations ==
    {{}, {0, 1}, {8, 9}, {5, 6, 7, 13, 14, 15}, {16, 17}, OtherFieldBits}

\* The cells of m with the bits of word reg outside the levels set to w.
Perturb(m, reg, w) ==
    Store(m, reg, (VALUE(m, reg) \ OtherFieldBits) \cup w)

\* INTSTAT as update_irq_status computes it from the cells of m.
Recomputed(m) == VALUE(update_irq_status(m, 0).iomem, INTSTAT)

\* C35: the arbitration result depends only on bits 4:2 of each priority
\* field: whatever the two sub-priority bits and the three high bits of the
\* fields of an IPC word are changed to, update_irq_status computes the
\* INTSTAT that is there; sources of one level are resolved toward the
\* lower index whatever their sub-priorities.
C35_OnlyLevelBitsArbitrate ==
    \A reg \in PerturbedWords : \A w \in Perturbations :
        Recomputed(Perturb(iomem, reg, w)) = VALUE(iomem, INTSTAT)

\* Sources 0 and 1 are pending and enabled at level 2 and INTSTAT names
\* source 0; with the sub-priority of source 1 raised to 3 above that of
\* source 0 the recomputation names source 0 still.
C35_Witness ==
    /\ {0, 1} \subseteq PendingEnabled(iomem)
    /\ IrqLevel(iomem, 0) = 2 /\ IrqLevel(iomem, 1) = 2
    /\ IntstatVector(iomem) = 0
    /\ VALUE(Perturb(iomem, IPC(0), {8, 9}), IPC(0)) # VALUE(iomem, IPC(0))
    /\ Recomputed(Perturb(iomem, IPC(0), {8, 9})) = ArbWord(0, 2)

(***************************************************************************)
(* Writes to the PORTx addresses, checked under SpecPeriph.                *)
(***************************************************************************)
\* The step is a write to one of the four addresses of PORTx of port p.
PortWriteStep(l, p) == l.op = "write" /\ Canonical(l.addr) = PORT(p)

\* C36: a write to a PORTx address (plain, CLR, SET or INV) gives the LATx
\* cell the value of the alias rule applied to LATx and the data, leaves
\* every other cell, the PORTx cell among them, as it was, and reports the
\* port through pic32_gpio_write called with the new VALUE(LATx).
C36_PortWriteGoesToLat ==
    [][\A p \in Ports :
          PortWriteStep(last', p)
          => LET d == AlignData(last'.addr, last'.data, last'.bytes)
                 new == write_op(VALUE(iomem, LAT(p)), d,
                                 WordAligned(last'.addr))
             IN  /\ halted' = "run"
                 /\ iomem' = Store(iomem, LAT(p), new)
                 /\ VALUE(iomem', PORT(p)) = VALUE(iomem, PORT(p))
                 /\ last'.hook = [name |-> "pic32_gpio_write",
                                  arg |-> new, cell |-> new]]_vars

\* A write of bit 1 to PORTKCLR has returned: LATK has lost bit 1, PORTK
\* holds its reset value with bit 1 set, and pic32_gpio_write was handed the
\* new LATK.
C36_Witness ==
    /\ last.op = "write" /\ last.addr = Plus(PORT(9), 4)
    /\ 1 \notin VALUE(iomem, LAT(9))
    /\ VALUE(iomem, PORT(9)) = 0..15
    /\ last.hook.name = "pic32_gpio_write"
    /\ last.hook.arg = VALUE(iomem, LAT(9))

(***************************************************************************)
(* CLKON of RTCCON, checked under SpecPeriph.                              *)
(***************************************************************************)
\* C37: after every write to RTCCON, at the plain or an alias address, CLKON
\* is set exactly when ON is set, whatever the CLKON bit of the data; and
\* HALFSEC and SYNC are as they were before the write.
C37_ClkonFollowsOn ==
    [][(last'.op = "write" /\ Canonical(last'.addr) = RTCCON)
       => /\ halted' = "run"
          /\ (PIC32_RTCC_CLKON \subseteq VALUE(iomem', RTCCON))
                <=> (PIC32_RTCC_ON \subseteq VALUE(iomem', RTCCON))
          /\ VALUE(iomem', RTCCON) \cap (PIC32_RTCC_HALFSEC \cup PIC32_RTCC_SYNC)
                = VALUE(iomem, RTCCON)
                    \cap (PIC32_RTCC_HALFSEC \cup PIC32_RTCC_SYNC)]_vars

\* The plain write RTCCON <- HALFSEC | ON has returned: ON is set, CLKON is
\* set though the data had it clear, and HALFSEC was not taken.
C37_Witness ==
    /\ last.op = "write" /\ last.addr = RTCCON
    /\ last.data = PIC32_RTCC_HALFSEC \cup PIC32_RTCC_ON
    /\ VALUE(iomem, RTCCON) = PIC32_RTCC_ON \cup PIC32_RTCC_CLKON

(***************************************************************************)
(* The registers of the two switches, checked under SpecNarrow.            *)
(***************************************************************************)
\* io_write32 has a case for the offset: a write of 0 there returns.
WriteAccepts(m, offset) ==
    io_write32(m, syskey_unlock, Cause_RIPL, board_type, offset, {}).exit
        = "run"

\* io_read32 has a case for the offset: a read there does not end at the
\* default label.
ReadAccepts(m, offset) == io_read32(m, offset, {}).exit # "exit1"

\* C38: the two switches map the same registers: a read at a canonical
\* register offset that io_write32 accepts does not halt at the default
\* label of io_read32, and a write at a canonical register offset that
\* io_read32 accepts returns, as a store or as a read-only discard.
C38_SameRegistersBothWays ==
    [][/\ (/\ last'.op = "read"
           /\ last'.addr = Canonical(last'.addr)
           /\ WriteAccepts(iomem, last'.addr))
          => halted' # "exit1"
       /\ (/\ last'.op = "write"
           /\ last'.addr = Canonical(last'.addr)
           /\ ReadAccepts(iomem, last'.addr))
          => halted' = "run"]_vars

====
